---- MODULE Spec2Model ----
(***************************************************************************)
(* Model of TexasHoldemEnv (src/texasholdem.py): table construction, reset *)
(* and step.  The object is carried through each handler as a record `s`   *)
(* whose fields are the attributes of TexasHoldemEnv; every handler is a   *)
(* pipeline of the statements of the source, and a raised exception stops  *)
(* the pipeline and leaves the attributes as the statements executed so    *)
(* far have left them (field err names the exception).                     *)
(*                                                                         *)
(* The Deck (module deckcard) is not part of texasholdem.py; it is modelled*)
(* from its contract: a shuffled 52-card source, draw n cards without      *)
(* replacement, reset to a full reshuffled deck.  The orderings a shuffle  *)
(* can produce are bounded to the cuts 0..MaxCut of the sorted deck.       *)
(***************************************************************************)
EXTENDS Integers, Sequences, FiniteSets, TLC

VARIABLES
    pc,                 \* "new": before __init__, "live": constructed, "dead": __init__ raised
    number_of_players,  \* argument of __init__
    initial_stack,      \* argument of __init__ / self.initial_stack
    small_blind,        \* self.small_blind
    big_blind,          \* self.big_blind
    players,            \* self.players: seat id -> Player record
    active_players,     \* self.active_players (set once in __init__)
    players_active,     \* self.players_active
    table,              \* self.__table: slot -> cards
    game_state,         \* self.game_state
    stake,              \* self.stake
    dealer_id,          \* self.dealer_id
    deck,               \* self.deck: the cards left, in drawing order
    call,               \* the last call made on the table: its arguments, how it ended,
                        \* and the dealer and phase it started from
    nsteps              \* history: step calls since the last reset began

vars == << pc, number_of_players, initial_stack, small_blind, big_blind, players,
           active_players, players_active, table, game_state, stake, dealer_id,
           deck, call, nsteps >>

-----------------------------------------------------------------------------
(* Bounds of the model *)

MaxPlayers == 4

MaxCut == 2

MaxSteps == 5

(* Values the constructor arguments are drawn from *)

StackValues == {5, 15, 1000}

SmallBlindValues == {10}

-----------------------------------------------------------------------------
(* Values of the program *)

None == << >>

NoStake == -1

DeckSize == 52

action_space == 0 .. 2

Actions == 0 .. 3

Phase == {"PREFLOP", "FLOP", "TURN", "RIVER", "SHOWDOWN"}

Slots == {"FLOP", "TURN", "RIVER"}

EmptyTable == [slot \in Slots |-> None]

Player(id_in, stack_in) ==
    [ id             |-> id_in,
      stack          |-> stack_in,
      cards          |-> << >>,
      is_active      |-> TRUE,
      is_all_in      |-> FALSE,
      is_dealer      |-> FALSE,
      is_small_blind |-> FALSE,
      is_big_blind   |-> FALSE ]

-----------------------------------------------------------------------------
(* Deck *)

Cut(k) == [i \in 1 .. DeckSize |-> ((i + k - 1) % DeckSize) + 1]

Shuffles == {Cut(k) : k \in 0 .. MaxCut}

\* draw_random(n): the first n cards left, removed from the deck
deck_can_draw(d, n) == Len(d) >= n

deck_drawn(d, n) == SubSeq(d, 1, n)

deck_rest(d, n) == SubSeq(d, n + 1, Len(d))

-----------------------------------------------------------------------------
(* The object as a record, and exceptions *)

Self ==
    [ players        |-> players,
      active_players |-> active_players,
      players_active |-> players_active,
      table          |-> table,
      game_state     |-> game_state,
      stake          |-> stake,
      dealer_id      |-> dealer_id,
      deck           |-> deck,
      small_blind    |-> small_blind,
      big_blind      |-> big_blind,
      err            |-> "none" ]

Raise(s, e) == [s EXCEPT !.err = e]

\* No exception has been raised so far
Ok(s) == s.err = "none"

NumPlayers(s) == Cardinality(DOMAIN s.players)

\* self.players[i] for a non-negative i: IndexError past the end of the list
InRange(s, i) == i \in DOMAIN s.players

get_active_players(s) ==
    LET RECURSIVE collect(_)
        collect(i) ==
            IF i >= NumPlayers(s) THEN << >>
            ELSE IF s.players[i].is_active THEN << i >> \o collect(i + 1)
            ELSE collect(i + 1)
    IN collect(0)

-----------------------------------------------------------------------------
(* Role rotation *)

\* The while loop of __get_next_active_player_id.  The loop condition reads
\* self.players[next_player] before it tests idx_loop, and next_player is
\* incremented without wrapping, so a walk past the last seat is an IndexError.
RECURSIVE scan_for_dealer(_, _, _)
scan_for_dealer(s, next_player, idx_loop) ==
    IF ~InRange(s, next_player) THEN [err |-> "IndexError", val |-> next_player]
    ELSE IF ~s.players[next_player].is_dealer /\ idx_loop < NumPlayers(s)
         THEN scan_for_dealer(s, next_player + 1, idx_loop + 1)
         ELSE [err |-> "none", val |-> next_player]

get_next_active_player_id(s, current_player) ==
    scan_for_dealer(s, (current_player + 1) % Len(s.active_players), 0)

set_dealer(s) ==
    LET r == get_next_active_player_id(s, s.dealer_id + 1)
    IN IF r.err # "none" THEN Raise(s, r.err)
       ELSE [s EXCEPT !.players[r.val].is_dealer = TRUE, !.dealer_id = r.val]

set_small_blind(s) ==
    LET r == get_next_active_player_id(s, s.dealer_id + 1)
    IN IF r.err # "none" THEN Raise(s, r.err)
       ELSE [s EXCEPT !.players[r.val].is_small_blind = TRUE]

set_big_blind(s) ==
    LET r == get_next_active_player_id(s, s.dealer_id + 1)
    IN IF r.err # "none" THEN Raise(s, r.err)
       ELSE [s EXCEPT !.players[r.val].is_big_blind = TRUE]

-----------------------------------------------------------------------------
(* Dealing *)

\* deal_two_cards_each with one draw shared by every seat
deal_same_cards_each(s, i) ==
    IF ~deck_can_draw(s.deck, 2) THEN Raise(s, "DeckExhausted")
    ELSE [s EXCEPT !.players = [j \in DOMAIN s.players |->
                                   [s.players[j] EXCEPT !.cards = deck_drawn(s.deck, 2)]],
                   !.deck = deck_rest(s.deck, 2)]

\* for player in self.players: player.cards = self.deck.draw_random(2)
RECURSIVE deal_two_cards_each(_, _)
deal_two_cards_each(s, i) ==
    IF i >= NumPlayers(s) THEN s
    ELSE IF ~deck_can_draw(s.deck, 2) THEN Raise(s, "DeckExhausted")
    ELSE deal_two_cards_each(
             [s EXCEPT !.players[i].cards = deck_drawn(s.deck, 2),
                       !.deck = deck_rest(s.deck, 2)],
             i + 1)

deal_new_cards(s) ==
    LET s1 == set_small_blind(s)
        s2 == IF Ok(s1) THEN set_big_blind(s1) ELSE s1
    IN IF Ok(s2) THEN deal_two_cards_each(s2, 0) ELSE s2

-----------------------------------------------------------------------------
(* reset *)

\* clear_table without the community slots being cleared
clear_table_keeps_slots(s) == [s EXCEPT !.game_state = "PREFLOP"]

\* clear_table without the phase being set back
clear_table_keeps_phase(s) == [s EXCEPT !.table = EmptyTable]

clear_table(s) == [s EXCEPT !.table = EmptyTable, !.game_state = "PREFLOP"]

refresh_players_active(s) == [s EXCEPT !.players_active = get_active_players(s)]

\* clear_cards that clears the all-in flag with the cards
clear_cards_and_all_in(s) ==
    [s EXCEPT !.players = [i \in DOMAIN s.players |->
                              [s.players[i] EXCEPT !.cards = << >>,
                                                   !.is_all_in = FALSE]]]

clear_cards(s) ==
    [s EXCEPT !.players = [i \in DOMAIN s.players |->
                              [s.players[i] EXCEPT !.cards = << >>]]]

\* new_dealer without the rotation
new_dealer_stays(s) == [s EXCEPT !.dealer_id = s.dealer_id % NumPlayers(s)]

new_dealer(s) == [s EXCEPT !.dealer_id = (s.dealer_id + 1) % NumPlayers(s)]

\* deck_reset left out: the deck stays as the dealing left it
deck_reset_skipped(s, shuffle) == s

deck_reset(s, shuffle) == [s EXCEPT !.deck = shuffle]

\* post_blind with the nominal blind added to the stake on the all-in branch
post_blind_nominal(s, offset, blind) ==
    LET i == s.dealer_id + offset
    IN IF ~InRange(s, i) THEN Raise(s, "IndexError")
       ELSE IF s.players[i].stack < blind
            THEN [s EXCEPT !.stake = s.stake + blind,
                           !.players[i].is_all_in = TRUE,
                           !.players[i].stack = 0]
            ELSE [s EXCEPT !.stake = s.stake + blind]

\* post_blind with the blind taken off the stack of a seat that covers it
post_blind_deducts(s, offset, blind) ==
    LET i == s.dealer_id + offset
    IN IF ~InRange(s, i) THEN Raise(s, "IndexError")
       ELSE IF s.players[i].stack < blind
            THEN [s EXCEPT !.stake = s.stake + s.players[i].stack,
                           !.players[i].is_all_in = TRUE,
                           !.players[i].stack = 0]
            ELSE [s EXCEPT !.stake = s.stake + blind,
                           !.players[i].stack = s.players[i].stack - blind]

\* The blind of the seat at self.dealer_id + offset (the index is not wrapped)
post_blind(s, offset, blind) ==
    LET i == s.dealer_id + offset
    IN IF ~InRange(s, i) THEN Raise(s, "IndexError")
       ELSE IF s.players[i].stack < blind
            THEN [s EXCEPT !.stake = s.stake + s.players[i].stack,
                           !.players[i].is_all_in = TRUE,
                           !.players[i].stack = 0]
            ELSE [s EXCEPT !.stake = s.stake + blind]

post_small_blind(s) == post_blind(s, 1, s.small_blind)

post_big_blind(s) == post_blind(s, 2, s.big_blind)

set_all_active(s) ==
    [s EXCEPT !.players = [i \in DOMAIN s.players |->
                              [s.players[i] EXCEPT !.is_active = TRUE]]]

zero_stake(s) == [s EXCEPT !.stake = 0]

reset(s, shuffle) ==
    LET s1 == new_dealer(clear_cards(refresh_players_active(clear_table(s))))
        s2 == deal_new_cards(s1)
        s3 == IF Ok(s2) THEN zero_stake(deck_reset(s2, shuffle)) ELSE s2
        s4 == IF Ok(s3) THEN post_small_blind(s3) ELSE s3
        s5 == IF Ok(s4) THEN post_big_blind(s4) ELSE s4
    IN IF Ok(s5) THEN set_all_active(s5) ELSE s5

-----------------------------------------------------------------------------
(* step *)

check_action(s, action) ==
    IF action \notin action_space THEN Raise(s, "ValueError") ELSE s

\* One draw_random(n) into a community slot, then the phase change
deal_slot(s, slot, n, phase) ==
    IF ~deck_can_draw(s.deck, n) THEN Raise(s, "DeckExhausted")
    ELSE [s EXCEPT !.table[slot] = deck_drawn(s.deck, n),
                   !.deck = deck_rest(s.deck, n),
                   !.game_state = phase]

\* step with a CALL that adds the big blind to the stake
step_call_bets(s, action) ==
    LET b == IF action = 1 THEN [s EXCEPT !.stake = s.stake + s.big_blind] ELSE s
    IN IF s.game_state = "PREFLOP" THEN deal_slot(b, "FLOP", 3, "FLOP")
       ELSE IF s.game_state = "FLOP" THEN deal_slot(b, "TURN", 1, "TURN")
       ELSE IF s.game_state = "TURN" THEN deal_slot(b, "RIVER", 1, "SHOWDOWN")
       ELSE b

\* step with the TURN branch moving to the RIVER phase
step_to_river(s, action) ==
    IF s.game_state = "PREFLOP" THEN deal_slot(s, "FLOP", 3, "FLOP")
    ELSE IF s.game_state = "FLOP" THEN deal_slot(s, "TURN", 1, "TURN")
    ELSE IF s.game_state = "TURN" THEN deal_slot(s, "RIVER", 1, "RIVER")
    ELSE s

\* step with the TURN branch drawing into the turn slot again
step_turn_twice(s, action) ==
    IF s.game_state = "PREFLOP" THEN deal_slot(s, "FLOP", 3, "FLOP")
    ELSE IF s.game_state = "FLOP" THEN deal_slot(s, "TURN", 1, "TURN")
    ELSE IF s.game_state = "TURN" THEN deal_slot(s, "TURN", 1, "SHOWDOWN")
    ELSE s

\* step with a SHOWDOWN branch that draws the river again
step_showdown_draws(s, action) ==
    IF s.game_state = "PREFLOP" THEN deal_slot(s, "FLOP", 3, "FLOP")
    ELSE IF s.game_state = "FLOP" THEN deal_slot(s, "TURN", 1, "TURN")
    ELSE IF s.game_state = "TURN" THEN deal_slot(s, "RIVER", 1, "SHOWDOWN")
    ELSE deal_slot(s, "RIVER", 1, "SHOWDOWN")

step(s, action) ==
    IF s.game_state = "PREFLOP" THEN deal_slot(s, "FLOP", 3, "FLOP")
    ELSE IF s.game_state = "FLOP" THEN deal_slot(s, "TURN", 1, "TURN")
    ELSE IF s.game_state = "TURN" THEN deal_slot(s, "RIVER", 1, "SHOWDOWN")
    ELSE s

\* step_return with the terminal flag raised at SHOWDOWN
step_return_done(s) == << s.table, 0, s.game_state = "SHOWDOWN", << >> >>

step_return(s) == << s.table, 0, FALSE, << >> >>

-----------------------------------------------------------------------------
(* __init__ *)

init(n, stack_in, small_blind_in, first_dealer, first_shuffle, shuffle) ==
    LET s0 == [ players        |-> [i \in 0 .. n - 1 |-> Player(i, stack_in)],
                active_players |-> << >>,
                players_active |-> << >>,
                table          |-> EmptyTable,
                game_state     |-> "START_GAME",
                stake          |-> NoStake,
                dealer_id      |-> first_dealer,
                deck           |-> first_shuffle,
                small_blind    |-> small_blind_in,
                big_blind      |-> small_blind_in * 2,
                err            |-> "none" ]
        s1 == [s0 EXCEPT !.active_players = get_active_players(s0)]
        s2 == [s1 EXCEPT !.players[first_dealer].is_dealer = TRUE]
        s3 == [s2 EXCEPT !.players_active = get_active_players(s2)]
        s4 == set_small_blind(s3)
    IN IF Ok(s4) THEN reset(s4, shuffle) ELSE s4

-----------------------------------------------------------------------------
(* The state machine *)

Store(s) ==
    /\ players' = s.players
    /\ active_players' = s.active_players
    /\ players_active' = s.players_active
    /\ table' = s.table
    /\ game_state' = s.game_state
    /\ stake' = s.stake
    /\ dealer_id' = s.dealer_id
    /\ deck' = s.deck

Init ==
    /\ pc = "new"
    /\ number_of_players \in 1 .. MaxPlayers
    /\ initial_stack \in StackValues
    /\ small_blind \in SmallBlindValues
    /\ big_blind = small_blind * 2
    /\ players = << >>
    /\ active_players = << >>
    /\ players_active = << >>
    /\ table = EmptyTable
    /\ game_state = "START_GAME"
    /\ stake = NoStake
    /\ dealer_id = 0
    /\ deck = << >>
    /\ call = [op |-> "none", action |-> 0, err |-> "none", ret |-> << >>,
               prev_dealer |-> 0, prev_phase |-> "START_GAME"]
    /\ nsteps = 0

New ==
    /\ pc = "new"
    /\ \E first_dealer \in 0 .. number_of_players - 1 :
       \E first_shuffle \in Shuffles :
       \E shuffle \in Shuffles :
          LET s == init(number_of_players, initial_stack, small_blind,
                        first_dealer, first_shuffle, shuffle)
          IN /\ Store(s)
             /\ pc' = IF s.err = "none" THEN "live" ELSE "dead"
             /\ call' = [op |-> "init", action |-> 0, err |-> s.err, ret |-> << >>,
                         prev_dealer |-> first_dealer,
                         prev_phase |-> "START_GAME"]
    /\ nsteps' = 0
    /\ UNCHANGED << number_of_players, initial_stack, small_blind, big_blind >>

Reset ==
    /\ pc = "live"
    /\ \E shuffle \in Shuffles :
          LET s == reset(Self, shuffle)
          IN /\ Store(s)
             /\ call' = [op |-> "reset", action |-> 0, err |-> s.err,
                         ret |-> IF s.err = "none" THEN << s.table >> ELSE << >>,
                         prev_dealer |-> dealer_id, prev_phase |-> game_state]
    /\ nsteps' = 0
    /\ UNCHANGED << pc, number_of_players, initial_stack, small_blind, big_blind >>

Step ==
    /\ pc = "live"
    /\ nsteps < MaxSteps
    /\ \E action \in Actions :
          LET s == step(Self, action)
          IN /\ Store(s)
             /\ call' = [op |-> "step", action |-> action, err |-> s.err,
                         ret |-> IF s.err = "none" THEN step_return(s) ELSE << >>,
                         prev_dealer |-> dealer_id, prev_phase |-> game_state]
    /\ nsteps' = nsteps + 1
    /\ UNCHANGED << pc, number_of_players, initial_stack, small_blind, big_blind >>

Next == New \/ Reset \/ Step

Spec == Init /\ [][Next]_vars

-----------------------------------------------------------------------------
(* Vocabulary of the properties *)

Seats == DOMAIN players

Min(a, b) == IF a < b THEN a ELSE b

Range(f) == {f[x] : x \in DOMAIN f}

\* The last call was __init__ or reset and it returned
AfterReset == pc = "live" /\ call.op \in {"init", "reset"} /\ call.err = "none"

\* The last call ran the statements of reset (it may have raised in them)
ResetRan == call.op = "reset" \/ (call.op = "init" /\ game_state # "START_GAME")

ActiveSeats == {i \in Seats : players[i].is_active}

Dealers == {i \in Seats : players[i].is_dealer}

SmallBlindSeats == {i \in Seats : players[i].is_small_blind}

BigBlindSeats == {i \in Seats : players[i].is_big_blind}

\* The next active seat after seat i in cyclic seat order
RECURSIVE NextActiveFrom(_, _)
NextActiveFrom(i, tries) ==
    LET j == (i + 1) % Cardinality(Seats)
    IN IF players[j].is_active \/ tries = 0 THEN j ELSE NextActiveFrom(j, tries - 1)

NextActive(i) == NextActiveFrom(i, Cardinality(Seats))

HoleCards(i) == Range(players[i].cards)

AllHoleCards == UNION {HoleCards(i) : i \in Seats}

CommunityCards == UNION {Range(table[slot]) : slot \in Slots}

CommunityCount == Len(table["FLOP"]) + Len(table["TURN"]) + Len(table["RIVER"])

\* The stack seat i has when the call being made starts
PreStack(i) == IF pc = "new" THEN initial_stack ELSE players[i].stack

-----------------------------------------------------------------------------
(* C1: after every reset that returns, exactly one seat is flagged dealer,  *)
(* exactly one small blind and exactly one big blind, on three distinct     *)
(* seats: the dealer, the next active seat after it, and the next after     *)
(* that.  The code puts all three flags on the seat first chosen as dealer. *)
C1_ThreeDistinctRoles ==
    AfterReset =>
        \E d \in Seats :
            /\ Dealers = {d}
            /\ SmallBlindSeats = {NextActive(d)}
            /\ BigBlindSeats = {NextActive(NextActive(d))}
            /\ Cardinality({d, NextActive(d), NextActive(NextActive(d))}) = 3

(* C2: with 3 or more seats, __init__ and every reset return without an    *)
(* error, whatever the first dealer and the dealer position reached.        *)
C2_NeverRaises ==
    (number_of_players >= 3 /\ call.op \in {"init", "reset"}) => call.err = "none"

(* C3: a reset that returns leaves stake = min(stack_sb, small_blind) +     *)
(* min(stack_bb, big_blind) over the stacks the two seats after the dealer  *)
(* had when the reset started, and each of the two seats is all-in (with    *)
(* stack 0) exactly when its stack was below its blind.                     *)
C3_StakeIsCappedBlinds ==
    [][ (call'.op \in {"init", "reset"} /\ call'.err = "none") =>
          LET n  == Cardinality(DOMAIN players')
              sb == (dealer_id' + 1) % n
              bb == (dealer_id' + 2) % n
          IN /\ stake' = Min(PreStack(sb), small_blind) + Min(PreStack(bb), big_blind)
             /\ players'[sb].is_all_in <=> PreStack(sb) < small_blind
             /\ players'[bb].is_all_in <=> PreStack(bb) < big_blind
             /\ PreStack(sb) < small_blind => players'[sb].stack = 0
             /\ PreStack(bb) < big_blind => players'[bb].stack = 0
             /\ PreStack(sb) >= small_blind => players'[sb].stack = PreStack(sb)
      ]_vars

\* The spec's example: a small-blind seat with stack 5 posts 5 of the blind 10
C3_Witness ==
    /\ AfterReset
    /\ initial_stack = 5
    /\ small_blind = 10
    /\ players[dealer_id + 1].is_all_in
    /\ players[dealer_id + 1].stack = 0
    /\ stake = 10

(* C4: after every reset that returns, every active seat holds exactly 2    *)
(* hole cards, and no card is held twice, in one seat or in two.            *)
C4_TwoDistinctHoleCards ==
    AfterReset =>
        /\ \A i \in ActiveSeats : Len(players[i].cards) = 2
        /\ Cardinality(UNION {HoleCards(i) : i \in ActiveSeats})
               = 2 * Cardinality(ActiveSeats)

\* A later hand on a table of four seats: eight different hole cards
C4_Witness ==
    /\ AfterReset
    /\ call.op = "reset"
    /\ number_of_players = 4
    /\ ActiveSeats = Seats
    /\ \A i \in Seats : Len(players[i].cards) = 2
    /\ Cardinality(AllHoleCards) = 8

(* C5: from the state a reset leaves, step moves PREFLOP -> FLOP -> TURN -> *)
(* SHOWDOWN: the first step fills the flop slot with 3 cards, the second    *)
(* the turn slot with 1 card, the third the river slot with 1 card and      *)
(* reaches SHOWDOWN; each step fills only the empty slot of its transition. *)
C5_PhaseSequence ==
    [][ call'.op = "step" =>
          /\ call'.err = "none"
          /\ game_state \in {"PREFLOP", "FLOP", "TURN", "SHOWDOWN"}
          /\ game_state = "PREFLOP" =>
                /\ nsteps' = 1
                /\ game_state' = "FLOP"
                /\ table["FLOP"] = None /\ Len(table'["FLOP"]) = 3
                /\ table'["TURN"] = table["TURN"] /\ table'["RIVER"] = table["RIVER"]
          /\ game_state = "FLOP" =>
                /\ nsteps' = 2
                /\ game_state' = "TURN"
                /\ table["TURN"] = None /\ Len(table'["TURN"]) = 1
                /\ table'["FLOP"] = table["FLOP"] /\ table'["RIVER"] = table["RIVER"]
          /\ game_state = "TURN" =>
                /\ nsteps' = 3
                /\ game_state' = "SHOWDOWN"
                /\ table["RIVER"] = None /\ Len(table'["RIVER"]) = 1
                /\ table'["FLOP"] = table["FLOP"] /\ table'["TURN"] = table["TURN"]
          /\ game_state' = "SHOWDOWN" => nsteps' >= 3
      ]_vars

C5_Witness ==
    /\ call.op = "step"
    /\ nsteps = 3
    /\ game_state = "SHOWDOWN"
    /\ Len(table["FLOP"]) = 3 /\ Len(table["TURN"]) = 1 /\ Len(table["RIVER"]) = 1

(* C6: no community card dealt by step equals a hole card of the hand.  The *)
(* code deals the hole cards and then resets the deck, so the community     *)
(* cards are drawn from a deck that holds the hole cards again.             *)
C6_CommunityNotInHoleCards ==
    pc = "live" => CommunityCards \cap AllHoleCards = {}

(* C7: within a hand the community cards are pairwise distinct across the   *)
(* three slots, a step never changes a slot that is filled, and at SHOWDOWN *)
(* exactly 5 community cards have been dealt.                               *)
C7_CommunitySlots ==
    [][ /\ Cardinality(CommunityCards') = CommunityCount'
        /\ game_state' = "SHOWDOWN" => CommunityCount' = 5
        /\ call'.op = "step" =>
              \A slot \in Slots : table[slot] # None => table'[slot] = table[slot]
      ]_vars

C7_Witness ==
    /\ call.op = "step"
    /\ game_state = "SHOWDOWN"
    /\ CommunityCount = 5
    /\ Cardinality(CommunityCards) = 5

(* C8: at SHOWDOWN step is a no-op: no card leaves the deck, and the phase, *)
(* the community slots, the stake, the dealer and every seat are unchanged. *)
C8_ShowdownStepIsNoOp ==
    [][ (call'.op = "step" /\ game_state = "SHOWDOWN") =>
          /\ call'.err = "none"
          /\ call'.ret[1] = table
          /\ UNCHANGED << players, active_players, players_active, table,
                          game_state, stake, dealer_id, deck >>
      ]_vars

\* Two steps have been made at SHOWDOWN
C8_Witness ==
    /\ call.op = "step"
    /\ game_state = "SHOWDOWN"
    /\ nsteps = 5

(* C9: with more than one active seat, a reset moves dealer_id to another   *)
(* seat, which is active: dealer_id after the reset differs from dealer_id  *)
(* before it.                                                               *)
C9_DealerMoves ==
    (ResetRan /\ Cardinality(ActiveSeats) > 1) =>
        /\ dealer_id # call.prev_dealer
        /\ dealer_id \in ActiveSeats

\* Two resets in a row have moved the dealer twice
C9_Witness ==
    /\ call.op = "reset"
    /\ call.err = "none"
    /\ Cardinality(ActiveSeats) > 1
    /\ call.prev_dealer = 0
    /\ dealer_id = 1

(* C10: a step whose action is outside {FOLD, CALL, RAISE} fails with an    *)
(* invalid-action error (and advances nothing).  The code never calls       *)
(* _check_action from step.                                                 *)
C10_InvalidActionRejected ==
    (call.op = "step" /\ check_action(Self, call.action).err # "none") =>
        call.err = "ValueError"

(* C11: every step call, in every phase and also at SHOWDOWN, returns       *)
(* reward 0, terminal flag false and an empty info mapping.                 *)
C11_StepReturnsPlaceholders ==
    call.op = "step" =>
        /\ call.err = "none"
        /\ Len(call.ret) = 4
        /\ call.ret[2] = 0
        /\ call.ret[3] = FALSE
        /\ call.ret[4] = << >>

\* The step that reached SHOWDOWN
C11_Witness ==
    /\ call.op = "step"
    /\ call.prev_phase = "TURN"
    /\ game_state = "SHOWDOWN"
    /\ call.ret[2] = 0
    /\ call.ret[3] = FALSE

(* C12: for every starting seat and every placement of the role flags, the  *)
(* rotation scan returns an active seat id inside [0, N) or signals that no *)
(* seat is eligible; it never reads a seat index >= N.  The code increments *)
(* next_player without wrapping and reads self.players[N].                  *)
C12_ScanStaysInRange ==
    pc # "new" =>
        \A current \in 0 .. number_of_players :
            LET r == get_next_active_player_id(Self, current)
            IN /\ r.val \in Seats
               /\ r.err = "none" => players[r.val].is_active

(* C13: after every reset that returns, the seats flagged is_dealer are     *)
(* exactly {dealer_id}, and the blind flags of earlier hands are cleared.   *)
(* The code never clears or moves a role flag.                              *)
C13_DealerFlagFollowsDealerId ==
    AfterReset =>
        /\ Dealers = {dealer_id}
        /\ Cardinality(SmallBlindSeats) = 1
        /\ Cardinality(BigBlindSeats) = 1
        /\ SmallBlindSeats \cap BigBlindSeats = {}

(* C14: the seats reset charges the blinds to are the seats flagged small   *)
(* blind and big blind, so reset sets a seat all-in only if it holds a      *)
(* blind flag.  The code charges the seats at dealer_id + 1 and + 2 and     *)
(* flags the seat of the first dealer.                                      *)
C14_ChargedSeatsAreFlagged ==
    AfterReset =>
        /\ players[dealer_id + 1].is_small_blind
        /\ players[dealer_id + 2].is_big_blind
        /\ \A i \in Seats :
               (players[i].is_all_in /\ i \in {dealer_id + 1, dealer_id + 2})
                   => (players[i].is_small_blind \/ players[i].is_big_blind)

\* The blind reset charges seat i of the table the call leaves (0: none)
BlindOf(i) ==
    IF i = dealer_id' + 1 THEN small_blind
    ELSE IF i = dealer_id' + 2 THEN big_blind
    ELSE 0

(* C15: a seat's stack changes only on the forced all-in branch of reset,   *)
(* where it becomes 0: a blind seat that covers its blind keeps its stack,  *)
(* the other seats keep theirs, step changes none, so every stack is the    *)
(* initial stack or 0 and never grows.                                      *)
C15_StacksOnlyDropToZero ==
    [][ \A i \in DOMAIN players' :
          /\ players'[i].stack \in {initial_stack, 0}
          /\ players'[i].stack <= PreStack(i)
          /\ players'[i].stack # PreStack(i) =>
                /\ call'.op \in {"init", "reset"}
                /\ players'[i].stack = 0
                /\ players'[i].is_all_in
                /\ PreStack(i) < BlindOf(i)
          /\ PreStack(i) >= BlindOf(i) => players'[i].stack = PreStack(i)
      ]_vars

\* Both blind seats cover their blinds: stake 30, stacks still 1000
C15_Witness ==
    /\ AfterReset
    /\ initial_stack = 1000
    /\ stake = 30
    /\ players[dealer_id + 1].stack = 1000
    /\ players[dealer_id + 2].stack = 1000

(* C16: step changes only the phase, one community slot and the deck: it    *)
(* leaves stake, dealer_id and every seat's stack, hole cards and flags     *)
(* unchanged.                                                               *)
C16_StepFrame ==
    [][ call'.op = "step" =>
          UNCHANGED << stake, dealer_id, players, active_players, players_active >>
      ]_vars

\* The spec's example: stake still 30 after the flop is dealt
C16_Witness ==
    /\ call.op = "step"
    /\ call.action = 1
    /\ game_state = "FLOP"
    /\ Len(table["FLOP"]) = 3
    /\ initial_stack = 1000
    /\ stake = 30

(* C17: a reset that returns, called in any phase, leaves the three         *)
(* community slots undealt, the phase PREFLOP, every seat active, and the   *)
(* stake computed from 0 (the blinds of this hand only).                    *)
C17_ResetStartsAFreshHand ==
    [][ (call'.op \in {"init", "reset"} /\ call'.err = "none") =>
          /\ table' = EmptyTable
          /\ game_state' = "PREFLOP"
          /\ \A i \in DOMAIN players' : players'[i].is_active
          /\ stake' = Min(PreStack(dealer_id' + 1), small_blind)
                        + Min(PreStack(dealer_id' + 2), big_blind)
          /\ stake' <= small_blind + big_blind
      ]_vars

\* A reset called in the middle of a hand, at SHOWDOWN of a hand with a stake
C17_Witness ==
    /\ AfterReset
    /\ call.op = "reset"
    /\ call.prev_phase = "SHOWDOWN"
    /\ initial_stack = 1000
    /\ stake = 30
    /\ table = EmptyTable
    /\ game_state = "PREFLOP"

(* C18: on a constructed table the phase and the community slots agree: the *)
(* phase is PREFLOP, FLOP, TURN or SHOWDOWN; the flop slot is filled iff    *)
(* the phase is FLOP, TURN or SHOWDOWN, the turn slot iff it is TURN or     *)
(* SHOWDOWN, the river slot iff it is SHOWDOWN.                             *)
C18_PhaseMatchesSlots ==
    pc = "live" =>
        /\ game_state \in {"PREFLOP", "FLOP", "TURN", "SHOWDOWN"}
        /\ table["FLOP"] # None <=> game_state \in {"FLOP", "TURN", "SHOWDOWN"}
        /\ table["TURN"] # None <=> game_state \in {"TURN", "SHOWDOWN"}
        /\ table["RIVER"] # None <=> game_state = "SHOWDOWN"

\* The turn has been dealt and the river has not
C18_Witness ==
    /\ pc = "live"
    /\ call.op = "step"
    /\ game_state = "TURN"
    /\ table["FLOP"] # None /\ table["TURN"] # None /\ table["RIVER"] = None

(* C19: after a reset that returns the deck holds all 52 cards, the dealt   *)
(* hole cards among them; in every later state of the hand the deck holds   *)
(* 52 minus the number of community cards dealt, so the hole cards of a     *)
(* reset come from a deck of at least 47 cards and no draw fails.           *)
C19_DeckCount ==
    pc = "live" =>
        /\ Len(deck) = DeckSize - CommunityCount
        /\ Len(deck) >= DeckSize - 5
        /\ Cardinality(Range(deck)) = Len(deck)
        /\ call.err # "DeckExhausted"
        /\ AfterReset =>
              /\ Range(deck) = 1 .. DeckSize
              /\ AllHoleCards \subseteq Range(deck)
              /\ Cardinality(AllHoleCards) = 2 * number_of_players

\* A hand dealt from the 47 cards the hand before left
C19_Witness ==
    /\ AfterReset
    /\ call.prev_phase = "SHOWDOWN"
    /\ Len(deck) = 52
    /\ Cardinality(AllHoleCards) = 2 * number_of_players

(* C20: a seat whose is_all_in flag is set has stack 0, and a seat that is  *)
(* all-in stays all-in, with stack 0, through every later reset and step.   *)
C20_AllInIsForGood ==
    [][ \A i \in DOMAIN players' :
          /\ players'[i].is_all_in => players'[i].stack = 0
          /\ (i \in DOMAIN players /\ players[i].is_all_in) => players'[i].is_all_in
      ]_vars

\* A seat all-in from an earlier hand, after a reset that charged it nothing
C20_Witness ==
    /\ AfterReset
    /\ call.op = "reset"
    /\ \E i \in Seats :
          /\ players[i].is_all_in
          /\ players[i].stack = 0
          /\ i \notin {dealer_id + 1, dealer_id + 2}

====
